---- MODULE Spec2Model ----
(***************************************************************************)
(* Model of ros2_kdl_package/launch/my_aruco.launch.py.                    *)
(*                                                                         *)
(* The file defines one function, generate_launch_description, which       *)
(* builds a LaunchDescription of three entities: the included aruco_ros    *)
(* single.launch.py, a tf2_ros static_transform_publisher node and an      *)
(* rqt_image_view node.  The model follows one `ros2 launch` invocation    *)
(* after another: the invocation fixes the launch configurations given on  *)
(* the command line and the package index, the function is called, and the *)
(* launch runtime then executes the entities of the returned description.  *)
(***************************************************************************)
EXTENDS Integers, Sequences, FiniteSets, TLC

\* Number of launch invocations followed.
MaxCalls == 2

None == "None"

\* Names of the launch configurations the file reads (lines 10-11).
ConfigurationNames == {"marker_size", "marker_id"}

\* Values a launch invocation may give a configuration: an empty string, a
\* non-numeric string and a numeric string.
ConfigurationValues == {"", "abc", "0.05"}

\* Share directories the package index may hold for aruco_ros.
ShareDirectories == {"/opt/ros/humble/share/aruco_ros",
                     "/ws/install/aruco_ros/share/aruco_ros"}

\* Partial maps, as Python dicts: a function on a subset of the keys.
PartialMaps(keys, values) == UNION {[D -> values] : D \in SUBSET keys}

EmptyMap == [k \in {} |-> None]

VARIABLES
    launch_configurations,  \* context.launch_configurations of this invocation
    package_share,          \* package index: package name -> share directory
    pc,                     \* "idle", "loading", "returned" or "raised"
    description,            \* the entities generate_launch_description returned
    exception,              \* the exception it raised, or None
    executed,               \* indices of the entities the runtime has executed, in order
    forwarded,              \* launch arguments the include handed to single.launch.py
    history,                \* one record per finished call: inputs and outcome
    calls                   \* number of invocations so far

vars == <<launch_configurations, package_share, pc, description, exception,
          executed, forwarded, history, calls>>

----------------------------------------------------------------------------
(* The launch library's constructors, as the data they hold. *)

LaunchConfiguration(variable_name, default) ==
    [kind |-> "LaunchConfiguration", variable_name |-> variable_name, default |-> default]

\* LaunchConfiguration.perform: the configured value, else the default.
Perform(substitution, configurations) ==
    IF substitution.variable_name \in DOMAIN configurations
    THEN configurations[substitution.variable_name]
    ELSE substitution.default

PythonLaunchDescriptionSource(location) ==
    [kind |-> "PythonLaunchDescriptionSource", location |-> location]

IncludeLaunchDescription(source, arguments) ==
    [kind |-> "IncludeLaunchDescription", launch_description_source |-> source,
     launch_arguments |-> arguments, condition |-> None]

\* A Node built without arguments= has an empty argument list, and one built
\* without condition= has none.
Node(package, executable, name, arguments, output) ==
    [kind |-> "Node", package |-> package, executable |-> executable, name |-> name,
     arguments |-> arguments, output |-> output, condition |-> None]

LaunchDescription(entities) == entities

----------------------------------------------------------------------------
(* generate_launch_description, line by line. *)

marker_size == LaunchConfiguration("marker_size", "0.1")

marker_id == LaunchConfiguration("marker_id", "201")

\* FindPackageShare('aruco_ros').find('aruco_ros') raises PackageNotFoundError
\* when the package index has no aruco_ros.
PackageFound(index) == "aruco_ros" \in DOMAIN index

\* Faulty variant: the separator between share directory and file left out.
aruco_launch_file_relative(index) == index["aruco_ros"] \o "launch/single.launch.py"

aruco_launch_file(index) == index["aruco_ros"] \o "/launch/single.launch.py"

\* Faulty variant: the two substitutions under each other's key.
launch_arguments_swapped ==
    << <<"marker_size", marker_id>>, <<"marker_id", marker_size>> >>

launch_arguments ==
    << <<"marker_size", marker_size>>, <<"marker_id", marker_id>> >>

aruco_single_launch(index) ==
    IncludeLaunchDescription(PythonLaunchDescriptionSource(aruco_launch_file(index)),
                             launch_arguments)

\* Faulty variant: parent and child frame exchanged.
static_transform_publisher_args_swapped_frames ==
    <<"0", "0", "0", "1.57", "3.14", "1.57",
      "stereo_gazebo_left_camera_optical_frame", "camera_link">>

static_transform_publisher_args ==
    <<"0", "0", "0", "1.57", "3.14", "1.57",
      "camera_link", "stereo_gazebo_left_camera_optical_frame">>

\* Faulty variants: a node renamed, and a node given a condition on the include.
static_transform_publisher_renamed ==
    Node("tf2_ros", "static_transform_publisher", "static_tf_pub",
         static_transform_publisher_args, "screen")

static_transform_publisher_conditioned ==
    [Node("tf2_ros", "static_transform_publisher", "static_transform_publisher",
          static_transform_publisher_args, "screen")
     EXCEPT !.condition = "IfCondition(aruco_single_launch)"]

static_transform_publisher ==
    Node("tf2_ros", "static_transform_publisher", "static_transform_publisher",
         static_transform_publisher_args, "screen")

\* Faulty variants: a node name made unique by a counter kept between calls, and a
\* viewer handed the marker id.
rqt_image_view_counted ==
    Node("rqt_image_view", "rqt_image_view",
         IF calls <= 1 THEN "rqt_image_view" ELSE "rqt_image_view_" \o ToString(calls),
         <<>>, "screen")

rqt_image_view_with_marker ==
    Node("rqt_image_view", "rqt_image_view", "rqt_image_view",
         <<Perform(marker_id, launch_configurations)>>, "screen")

rqt_image_view ==
    Node("rqt_image_view", "rqt_image_view", "rqt_image_view", <<>>, "screen")

\* Faulty variant: the two nodes listed in the other order.
Entities_reordered(index) ==
    <<aruco_single_launch(index), rqt_image_view, static_transform_publisher>>

Entities(index) ==
    <<aruco_single_launch(index), static_transform_publisher, rqt_image_view>>

\* Faulty variant: the path left to the runtime to resolve, so that nothing is raised here.
GenerateLaunchDescription_deferred(index) ==
    [status |-> "returned", exception |-> None,
     value |-> LaunchDescription(
        <<IncludeLaunchDescription(
              PythonLaunchDescriptionSource(
                  "$(find-pkg-share aruco_ros)/launch/single.launch.py"),
              launch_arguments),
          static_transform_publisher, rqt_image_view>>)]

\* Faulty variant: the configured marker values are checked to be numeric.
GenerateLaunchDescription_validating(index) ==
    IF ~PackageFound(index)
    THEN [status |-> "raised", exception |-> "PackageNotFoundError", value |-> <<>>]
    ELSE IF \E k \in DOMAIN launch_configurations :
                launch_configurations[k] \notin {"0.05", "0.1", "201"}
    THEN [status |-> "raised", exception |-> "ValueError", value |-> <<>>]
    ELSE [status |-> "returned", exception |-> None,
          value |-> LaunchDescription(Entities(index))]

\* The outcome of one call: the returned description, or the exception of line 14.
GenerateLaunchDescription(index) ==
    IF PackageFound(index)
    THEN [status |-> "returned", exception |-> None,
          value |-> LaunchDescription(Entities(index))]
    ELSE [status |-> "raised", exception |-> "PackageNotFoundError", value |-> <<>>]

----------------------------------------------------------------------------
(* The state machine. *)

Init ==
    /\ launch_configurations = EmptyMap
    /\ package_share = EmptyMap
    /\ pc = "idle"
    /\ description = <<>>
    /\ exception = None
    /\ executed = <<>>
    /\ forwarded = EmptyMap
    /\ history = {}
    /\ calls = 0

\* `ros2 launch ros2_kdl_package my_aruco.launch.py [name:=value ...]`: the
\* invocation fixes the launch configurations and the package index, and the
\* file is loaded.
RosLaunch(configurations, index) ==
    /\ pc # "loading"
    /\ calls < MaxCalls
    /\ launch_configurations' = configurations
    /\ package_share' = index
    /\ pc' = "loading"
    /\ description' = <<>>
    /\ exception' = None
    /\ executed' = <<>>
    /\ forwarded' = EmptyMap
    /\ calls' = calls + 1
    /\ UNCHANGED history

\* The launch runtime calls generate_launch_description().
generate_launch_description ==
    /\ pc = "loading"
    /\ LET outcome == GenerateLaunchDescription(package_share) IN
        /\ pc' = outcome.status
        /\ description' = outcome.value
        /\ exception' = outcome.exception
        /\ history' = history \cup
               {<<launch_configurations, package_share, outcome.status, outcome.value>>}
    /\ UNCHANGED <<launch_configurations, package_share, executed, forwarded, calls>>

\* An entity may be executed when it carries no condition.
CanExecute(i) ==
    /\ pc = "returned"
    /\ i \in 1..Len(description)
    /\ \A j \in 1..Len(executed) : executed[j] # i
    /\ description[i].condition = None

\* The launch arguments of an include, resolved against the launch configurations.
ResolvedArguments(entity, configurations) ==
    LET args == entity.launch_arguments IN
    [k \in {args[j][1] : j \in 1..Len(args)} |->
        LET j == CHOOSE n \in 1..Len(args) : args[n][1] = k
        IN  Perform(args[j][2], configurations)]

\* The launch runtime executes one entity of the returned description.
Execute(i) ==
    /\ CanExecute(i)
    /\ executed' = Append(executed, i)
    /\ forwarded' = IF description[i].kind = "IncludeLaunchDescription"
                    THEN ResolvedArguments(description[i], launch_configurations)
                    ELSE forwarded
    /\ UNCHANGED <<launch_configurations, package_share, pc, description, exception,
                   history, calls>>

Next ==
    \/ \E configurations \in PartialMaps(ConfigurationNames, ConfigurationValues),
          index \in PartialMaps({"aruco_ros"}, ShareDirectories) :
            RosLaunch(configurations, index)
    \/ generate_launch_description
    \/ \E i \in 1..3 : Execute(i)

Spec == Init /\ [][Next]_vars

----------------------------------------------------------------------------
(* Properties. *)

Returned == pc = "returned"

\* The runtime has executed the include of the returned description.
IncludeExecuted ==
    /\ Returned
    /\ \E j \in 1..Len(executed) :
          description[executed[j]].kind = "IncludeLaunchDescription"

\* C1: whatever the launch configurations (set or unset), the description that
\* generate_launch_description returns holds exactly three directives, in the
\* order included aruco sub-launch, static-transform-publisher node,
\* image-viewer node.
C1_ThreeDirectivesInOrder ==
    Returned =>
        /\ Len(description) = 3
        /\ description[1].kind = "IncludeLaunchDescription"
        /\ description[2].kind = "Node"
        /\ description[2].executable = "static_transform_publisher"
        /\ description[3].kind = "Node"
        /\ description[3].executable = "rqt_image_view"

C1_Witness ==
    /\ Returned
    /\ DOMAIN launch_configurations = {"marker_size"}
    /\ Len(description) = 3
    /\ description[3].executable = "rqt_image_view"

\* C2: the marker parameters handed to the included sub-launch are the
\* configured ones: the value the invocation set, and where it set none the
\* default, '0.1' for marker_size and '201' for marker_id.
C2_ForwardedEqualsConfigured ==
    IncludeExecuted =>
        /\ DOMAIN forwarded = {"marker_size", "marker_id"}
        /\ forwarded["marker_size"] =
              IF "marker_size" \in DOMAIN launch_configurations
              THEN launch_configurations["marker_size"] ELSE "0.1"
        /\ forwarded["marker_id"] =
              IF "marker_id" \in DOMAIN launch_configurations
              THEN launch_configurations["marker_id"] ELSE "201"

C2_Witness ==
    /\ IncludeExecuted
    /\ DOMAIN launch_configurations = {"marker_size"}
    /\ launch_configurations["marker_size"] = "0.05"
    /\ forwarded["marker_size"] = "0.05"
    /\ forwarded["marker_id"] = "201"

\* C3: in every returned description the static-transform-publisher directive
\* is present and its argument list is exactly the eight strings 0 0 0 1.57
\* 3.14 1.57 camera_link stereo_gazebo_left_camera_optical_frame, in that order.
C3_StaticTransformArguments ==
    Returned =>
        /\ \E i \in 1..Len(description) :
              /\ description[i].kind = "Node"
              /\ description[i].executable = "static_transform_publisher"
        /\ \A i \in 1..Len(description) :
              (/\ description[i].kind = "Node"
               /\ description[i].executable = "static_transform_publisher")
              => description[i].arguments =
                    <<"0", "0", "0", "1.57", "3.14", "1.57",
                      "camera_link", "stereo_gazebo_left_camera_optical_frame">>

C3_Witness ==
    /\ Returned
    /\ DOMAIN launch_configurations = {"marker_size", "marker_id"}
    /\ Len(description[2].arguments) = 8
    /\ description[2].arguments[7] = "camera_link"

\* C4 as stated: generate_launch_description never ends in an error, and still
\* returns its three directives when the aruco_ros package cannot be found.
C4_NeverErrors ==
    (pc \in {"returned", "raised"} /\ ~PackageFound(package_share)) =>
        /\ pc = "returned"
        /\ Len(description) = 3

\* C4 amended: an unresolvable aruco_ros package surfaces in
\* generate_launch_description itself.  When the package index has no
\* aruco_ros the call raises PackageNotFoundError, returns no description and
\* the runtime executes nothing; when it has one the call returns its three
\* directives and raises nothing.
C4_PackageErrorRaisedInFunction ==
    pc \in {"returned", "raised"} =>
        IF PackageFound(package_share)
        THEN /\ pc = "returned"
             /\ exception = None
             /\ Len(description) = 3
        ELSE /\ pc = "raised"
             /\ exception = "PackageNotFoundError"
             /\ description = <<>>
             /\ executed = <<>>

C4_Witness ==
    /\ pc = "raised"
    /\ ~PackageFound(package_share)
    /\ exception = "PackageNotFoundError"
    /\ DOMAIN launch_configurations = {"marker_size", "marker_id"}

C6_NoValidation ==
    /\ pc = "raised" => ~PackageFound(package_share)
    /\ (pc \in {"returned", "raised"} /\ PackageFound(package_share)) =>
          (pc = "returned" /\ Len(description) = 3)
    /\ IncludeExecuted =>
          \A k \in DOMAIN launch_configurations :
              k \in DOMAIN forwarded /\ forwarded[k] = launch_configurations[k]

C6_Witness ==
    /\ IncludeExecuted
    /\ DOMAIN launch_configurations = {"marker_size", "marker_id"}
    /\ launch_configurations["marker_size"] = ""
    /\ launch_configurations["marker_id"] = "abc"
    /\ forwarded["marker_size"] = ""
    /\ forwarded["marker_id"] = "abc"

\* C7: the two node directives are fixed literals: the second is
\* (tf2_ros, static_transform_publisher, static_transform_publisher, screen)
\* and the third (rqt_image_view, rqt_image_view, rqt_image_view, screen).
C7_NodeLiterals ==
    Returned =>
        /\ Len(description) = 3
        /\ description[2].kind = "Node"
        /\ description[2].package = "tf2_ros"
        /\ description[2].executable = "static_transform_publisher"
        /\ description[2].name = "static_transform_publisher"
        /\ description[2].output = "screen"
        /\ description[3].kind = "Node"
        /\ description[3].package = "rqt_image_view"
        /\ description[3].executable = "rqt_image_view"
        /\ description[3].name = "rqt_image_view"
        /\ description[3].output = "screen"

C7_Witness ==
    /\ Returned
    /\ DOMAIN launch_configurations = {"marker_id"}
    /\ description[2].package = "tf2_ros"
    /\ description[3].package = "rqt_image_view"

\* C8: the included sub-launch carries a parameter mapping with exactly the
\* keys marker_size and marker_id, and its source is the file
\* /launch/single.launch.py under the share directory of aruco_ros.
C8_IncludeShape ==
    Returned =>
        LET include == description[1]
            args == include.launch_arguments
        IN  /\ include.kind = "IncludeLaunchDescription"
            /\ Len(args) = 2
            /\ {args[j][1] : j \in 1..Len(args)} = {"marker_size", "marker_id"}
            /\ include.launch_description_source.kind = "PythonLaunchDescriptionSource"
            /\ include.launch_description_source.location =
                  package_share["aruco_ros"] \o "/launch/single.launch.py"
            /\ IncludeExecuted => DOMAIN forwarded = {"marker_size", "marker_id"}

C8_Witness ==
    /\ IncludeExecuted
    /\ package_share["aruco_ros"] = "/ws/install/aruco_ros/share/aruco_ros"
    /\ description[1].launch_description_source.location =
          "/ws/install/aruco_ros/share/aruco_ros/launch/single.launch.py"
    /\ DOMAIN forwarded = {"marker_size", "marker_id"}

\* C9: the description orders nothing: every directive is an include or a
\* node, none carries a condition, and so after the return every directive not
\* yet executed may be executed next, whatever has been executed before it.
C9_NoOrdering ==
    Returned =>
        \A i \in 1..Len(description) :
            /\ description[i].kind \in {"IncludeLaunchDescription", "Node"}
            /\ description[i].condition = None
            /\ (\A j \in 1..Len(executed) : executed[j] # i) => CanExecute(i)

\* The three directives executed in the reverse of the listed order.
C9_Witness ==
    /\ Returned
    /\ executed = <<3, 2, 1>>

\* C10: the marker configurations touch only the include: the
\* static-transform-publisher and the image-viewer directive are the same in
\* any two returned descriptions, and the image viewer has no arguments.
C10_NodesIndependentOfMarkers ==
    /\ \A r1 \in history : \A r2 \in history :
          (r1[3] = "returned" /\ r2[3] = "returned") =>
              (r1[4][2] = r2[4][2] /\ r1[4][3] = r2[4][3])
    /\ Returned => description[3].arguments = <<>>

\* Two calls under different marker configurations have both returned.
C10_Witness ==
    \E r1 \in history : \E r2 \in history :
        /\ r1[3] = "returned" /\ r2[3] = "returned"
        /\ DOMAIN r1[1] = {} /\ DOMAIN r2[1] = {"marker_size", "marker_id"}

====
